---------------------------- MODULE Spec2Model ----------------------------
(***************************************************************************)
(* ScrapeMovieInfo (src/main.go): a directory tree is walked for video     *)
(* files, each file name is normalised to its movie code by                *)
(* extractMovieCode, the target is deconflicted by getUniqueFilePath and   *)
(* the file is renamed.                                                    *)
(*                                                                         *)
(* A string is a sequence of one-character strings, so that the regular    *)
(* expressions, filepath.Base/Dir/Ext/Join, strings.ToUpper/ToLower and    *)
(* the %d of fmt.Sprintf are computed character by character.  A path is   *)
(* such a string with "/" as separator.                                    *)
(*                                                                         *)
(* The filesystem is the set of regular files and the set of directories   *)
(* under the scan root.  os.Stat succeeds exactly on the paths of these    *)
(* two sets: "exists" means "os.Stat returns no error" throughout.         *)
(***************************************************************************)
EXTENDS Naturals, Sequences, FiniteSets

VARIABLES
    cfgFile,     \* config.json on disk, one of ConfigFiles
    config,      \* main's config (NoConfig before loadConfig returned)
    files,       \* paths of the regular files under the root
    dirs,        \* paths of the directories under the root
    videoFiles,  \* main's videoFiles, filled by filepath.Walk
    i,           \* number of entries of videoFiles the loop is done with
    pc,          \* position in main (or in a single function call)
    newPath,     \* main's newPath / the targetPath argument of a call
    uniquePath,  \* main's uniquePath / the result of getUniqueFilePath
    filename,    \* the argument of a single extractMovieCode call
    movieCode,   \* main's movieCode / the result of extractMovieCode
    out,         \* the per-file console lines of the current run
    prevOut,     \* the per-file console lines of the run before
    files0,      \* the regular files as they were when the run started
    run,         \* number of the current run of the program
    created      \* number of entries an external process has created

vars == <<cfgFile, config, files, dirs, videoFiles, i, pc, newPath,
          uniquePath, filename, movieCode, out, prevOut, files0, run,
          created>>

---------------------------------------------------------------------------
(* Bounds of the model *)

\* The most regular files the scanned tree holds at the start.
MaxFiles == 2

\* How often the program is run on the tree.
Runs == 2

\* The most entries an external process creates (SpecRace).
MaxCreated == 1

\* The longest letter run and digit run of a generated movie code.
MaxLetters == 2

MaxDigits == 2

\* The highest suffix _k a generated filesystem holds.
MaxProbe == 3

---------------------------------------------------------------------------
(* Characters *)

Lower == <<"a","b","c","d","e","f","g","h","i","j","k","l","m",
           "n","o","p","q","r","s","t","u","v","w","x","y","z">>

Upper == <<"A","B","C","D","E","F","G","H","I","J","K","L","M",
           "N","O","P","Q","R","S","T","U","V","W","X","Y","Z">>

Digits == <<"0","1","2","3","4","5","6","7","8","9">>

Range(s) == {s[k] : k \in 1..Len(s)}

IsLetter(c) == c \in Range(Lower) \cup Range(Upper)

IsDigit(c) == c \in Range(Digits)

IndexIn(s, c) == CHOOSE k \in 1..Len(s) : s[k] = c

ToUpperChar(c) == IF c \in Range(Lower) THEN Upper[IndexIn(Lower, c)] ELSE c

ToLowerChar(c) == IF c \in Range(Upper) THEN Lower[IndexIn(Upper, c)] ELSE c

\* strings.ToUpper
ToUpper(s) == [k \in 1..Len(s) |-> ToUpperChar(s[k])]

\* strings.ToLower
ToLower(s) == [k \in 1..Len(s) |-> ToLowerChar(s[k])]

\* strings.HasSuffix
HasSuffix(s, suffix) ==
    /\ Len(suffix) <= Len(s)
    /\ SubSeq(s, Len(s) - Len(suffix) + 1, Len(s)) = suffix

\* strings.TrimSuffix
TrimSuffix(s, suffix) ==
    IF HasSuffix(s, suffix) THEN SubSeq(s, 1, Len(s) - Len(suffix)) ELSE s

\* The first index at or after from where s holds c, 0 when there is none.
IndexFrom(s, c, from) ==
    IF \E j \in from..Len(s) : s[j] = c
    THEN CHOOSE j \in from..Len(s) :
             s[j] = c /\ \A k \in from..(j - 1) : s[k] # c
    ELSE 0

\* The last index where s holds c, 0 when there is none.
LastIndex(s, c) ==
    IF \E j \in 1..Len(s) : s[j] = c
    THEN CHOOSE j \in 1..Len(s) :
             s[j] = c /\ \A k \in (j + 1)..Len(s) : s[k] # c
    ELSE 0

\* The %d of fmt.Sprintf: the decimal digits of n.
RECURSIVE Itoa(_)
Itoa(n) ==
    IF n < 10 THEN <<Digits[n + 1]>>
    ELSE Itoa(n \div 10) \o <<Digits[(n % 10) + 1]>>

---------------------------------------------------------------------------
(* path/filepath, on clean slash-separated paths *)

\* filepath.Base: the last element of the path.
Base(path) ==
    IF path = <<>> THEN <<".">>
    ELSE SubSeq(path, LastIndex(path, "/") + 1, Len(path))

\* filepath.Dir: all but the last element of the path, "." when it has one.
Dir(path) ==
    IF LastIndex(path, "/") = 0 THEN <<".">>
    ELSE IF LastIndex(path, "/") = 1 THEN <<"/">>
    ELSE SubSeq(path, 1, LastIndex(path, "/") - 1)

\* filepath.Ext: from the final dot of the last element, "" without a dot.
Ext(path) ==
    IF LastIndex(Base(path), ".") = 0 THEN <<>>
    ELSE SubSeq(Base(path), LastIndex(Base(path), "."), Len(Base(path)))

\* filepath.Join(dir, name): joined by "/" and cleaned (Clean drops "./").
Join(dir, name) ==
    IF dir = <<".">> \/ dir = <<>> THEN name
    ELSE IF dir = <<"/">> THEN dir \o name
    ELSE dir \o <<"/">> \o name

---------------------------------------------------------------------------
(* extractMovieCode *)

\* (com|net|org|xyz)
UrlWords == { <<"c","o","m">>, <<"n","e","t">>, <<"o","r","g">>,
              <<"x","y","z">> }

\* The regexp \[.*?\]|\(.*?\)|[-_](com|net|org|xyz)[^.]* matched at index k
\* of s: the index of the match's last character, 0 when it does not match
\* there.  The three alternatives start with different characters; .*? stops
\* at the first closing bracket and [^.]* runs to the next dot or the end.
NoiseMatchEnd(s, k) ==
    IF s[k] = "[" THEN IndexFrom(s, "]", k + 1)
    ELSE IF s[k] = "(" THEN IndexFrom(s, ")", k + 1)
    ELSE IF /\ s[k] \in {"-", "_"}
            /\ k + 3 <= Len(s)
            /\ SubSeq(s, k + 1, k + 3) \in UrlWords
         THEN IF IndexFrom(s, ".", k + 4) = 0 THEN Len(s)
              ELSE IndexFrom(s, ".", k + 4) - 1
    ELSE 0

\* ReplaceAllString(base, ""): the matches are found left to right, each
\* search starting after the match before.
RECURSIVE RemoveNoiseFrom(_, _)
RemoveNoiseFrom(s, k) ==
    IF k > Len(s) THEN <<>>
    ELSE IF NoiseMatchEnd(s, k) # 0
         THEN RemoveNoiseFrom(s, NoiseMatchEnd(s, k) + 1)
         ELSE <<s[k]>> \o RemoveNoiseFrom(s, k + 1)

RemoveNoise(base) == RemoveNoiseFrom(base, 1)

\* The first index at or after from where s holds no letter (no digit).
LettersEnd(s, from) ==
    IF \E j \in from..Len(s) : ~IsLetter(s[j])
    THEN CHOOSE j \in from..Len(s) :
             ~IsLetter(s[j]) /\ \A k \in from..(j - 1) : IsLetter(s[k])
    ELSE Len(s) + 1

DigitsEnd(s, from) ==
    IF \E j \in from..Len(s) : ~IsDigit(s[j])
    THEN CHOOSE j \in from..Len(s) :
             ~IsDigit(s[j]) /\ \A k \in from..(j - 1) : IsDigit(s[k])
    ELSE Len(s) + 1

\* (?i)([a-zA-Z]+-\d+(?:-(?:c|uc))?) matched at index k of s: the index of
\* the match's last character, 0 when it does not match there.  Both runs are
\* greedy, and so is the optional suffix, with c tried before uc.
CodeMatchEnd(s, k) ==
    LET h == LettersEnd(s, k)
        d == DigitsEnd(s, h + 1)
    IN  IF /\ IsLetter(s[k])
           /\ h <= Len(s) /\ s[h] = "-"
           /\ d > h + 1
        THEN IF /\ d + 1 <= Len(s) /\ s[d] = "-"
                /\ s[d + 1] \in {"c", "C"}
             THEN d + 1
             ELSE IF /\ d + 2 <= Len(s) /\ s[d] = "-"
                     /\ s[d + 1] \in {"u", "U"}
                     /\ s[d + 2] \in {"c", "C"}
                  THEN d + 2
                  ELSE d - 1
        ELSE 0

\* FindString: the leftmost match, "" when there is none.
FindCode(s) ==
    IF \E k \in 1..Len(s) : CodeMatchEnd(s, k) # 0
    THEN LET k == CHOOSE a \in 1..Len(s) :
                      /\ CodeMatchEnd(s, a) # 0
                      /\ \A b \in 1..(a - 1) : CodeMatchEnd(s, b) = 0
         IN  SubSeq(s, k, CodeMatchEnd(s, k))
    ELSE <<>>

\* Variant: the code is searched in the base name as it is, the noise left in.
extractMovieCodeNoClean(name) ==
    LET base    == Base(name)
        matches == FindCode(base)
    IN  IF matches # <<>> THEN ToUpper(matches) \o Ext(base) ELSE base

\* Variant: without a code the cleaned name is returned, not the base name.
extractMovieCodeCleaned(name) ==
    LET base    == Base(name)
        cleaned == RemoveNoise(base)
        matches == FindCode(cleaned)
    IN  IF matches # <<>> THEN ToUpper(matches) \o Ext(base) ELSE cleaned

extractMovieCode(name) ==
    LET base    == Base(name)
        cleaned == RemoveNoise(base)
        matches == FindCode(cleaned)
    IN  IF matches # <<>> THEN ToUpper(matches) \o Ext(base) ELSE base

---------------------------------------------------------------------------
(* getUniqueFilePath *)

\* os.Stat(path) returns no error.
Exists(path, fs) == path \in fs

\* Variant: the suffix is put behind the extension.
ProbeAfterExt(targetPath, counter) == targetPath \o <<"_">> \o Itoa(counter)

\* fmt.Sprintf("%s_%d%s", nameWithoutExt, counter, ext) joined to dir
Probe(targetPath, counter) ==
    LET ext            == Ext(targetPath)
        nameWithoutExt == TrimSuffix(Base(targetPath), ext)
    IN  Join(Dir(targetPath),
             nameWithoutExt \o <<"_">> \o Itoa(counter) \o ext)

\* Variant: the probe is returned without a look at the filesystem.
ProbeOnce(targetPath, counter, fs) == Probe(targetPath, counter)

\* The for loop: the first probe, from counter on, that does not exist.  fs
\* is finite, so the loop ends.
RECURSIVE ProbeFrom(_, _, _)
ProbeFrom(targetPath, counter, fs) ==
    IF ~Exists(Probe(targetPath, counter), fs)
    THEN Probe(targetPath, counter)
    ELSE ProbeFrom(targetPath, counter + 1, fs)

\* Variant: the target is returned whether it exists or not.
getUniqueFilePathNoCheck(targetPath, fs) == targetPath

getUniqueFilePath(targetPath, fs) ==
    IF ~Exists(targetPath, fs) THEN targetPath
    ELSE ProbeFrom(targetPath, 1, fs)

---------------------------------------------------------------------------
(* loadConfig *)

\* "./"
DotSlash == <<".","/">>

\* ".mp4", ".mkv", ".avi"
Mp4 == <<".","m","p","4">>

Mkv == <<".","m","k","v">>

Avi == <<".","a","v","i">>

\* defaultConfig
DefaultConfig ==
    [FilePath |-> DotSlash, VideoTypes |-> <<Mp4, Mkv, Avi>>, ProxyAddr |-> <<>>]

\* A config.json written by the user: only .mkv files are video files.
MkvConfig ==
    [FilePath |-> DotSlash, VideoTypes |-> <<Mkv>>, ProxyAddr |-> <<>>]

\* Config{}: what loadConfig returns beside an error.
NoConfig == [FilePath |-> <<>>, VideoTypes |-> <<>>, ProxyAddr |-> <<>>]

\* config.json: absent, not JSON, the defaults as loadConfig writes them, or
\* the user's file.
ConfigFiles == {"absent", "malformed", "default", "mkv"}

\* json.Unmarshal of a well-formed config.json
Unmarshal(content) == IF content = "default" THEN DefaultConfig ELSE MkvConfig

\* os.ReadFile fails: the defaults are written and returned, or writing
\* fails and so does the load.
LoadConfigCreate ==
    /\ pc = "start"
    /\ cfgFile = "absent"
    /\ \/ /\ cfgFile' = "default"
          /\ config' = DefaultConfig
          /\ pc' = "walk"
       \/ /\ cfgFile' = cfgFile
          /\ config' = NoConfig
          /\ pc' = "aborted"
    /\ UNCHANGED <<files, dirs, videoFiles, i, newPath, uniquePath, filename,
                   movieCode, out, prevOut, files0, run, created>>

\* Variant: a config.json that is not JSON is replaced by the defaults and the
\* run goes on.
LoadConfigMalformedDefaults ==
    /\ pc = "start"
    /\ cfgFile = "malformed"
    /\ config' = DefaultConfig
    /\ pc' = "walk"
    /\ UNCHANGED <<cfgFile, files, dirs, videoFiles, i, newPath, uniquePath,
                   filename, movieCode, out, prevOut, files0, run, created>>

\* json.Unmarshal fails: main prints the error and returns.
LoadConfigMalformed ==
    /\ pc = "start"
    /\ cfgFile = "malformed"
    /\ config' = NoConfig
    /\ pc' = "aborted"
    /\ UNCHANGED <<cfgFile, files, dirs, videoFiles, i, newPath, uniquePath,
                   filename, movieCode, out, prevOut, files0, run, created>>

LoadConfigExisting ==
    /\ pc = "start"
    /\ cfgFile \notin {"absent", "malformed"}
    /\ config' = Unmarshal(cfgFile)
    /\ pc' = "walk"
    /\ UNCHANGED <<cfgFile, files, dirs, videoFiles, i, newPath, uniquePath,
                   filename, movieCode, out, prevOut, files0, run, created>>

---------------------------------------------------------------------------
(* filepath.Walk and main's callback *)

\* The characters of the model in byte order.
ByteOrder == <<"(", ")", "-", ".", "/">> \o Digits \o Upper
                 \o <<"[", "]", "_">> \o Lower

\* a < b as Go compares strings: byte by byte, a proper prefix first.
RECURSIVE StrLess(_, _)
StrLess(a, b) ==
    IF b = <<>> THEN FALSE
    ELSE IF a = <<>> THEN TRUE
    ELSE IF Head(a) # Head(b)
         THEN IndexIn(ByteOrder, Head(a)) < IndexIn(ByteOrder, Head(b))
         ELSE StrLess(Tail(a), Tail(b))

\* The paths of S in lexical order (readDirNames sorts the names).
RECURSIVE Sorted(_)
Sorted(S) ==
    IF S = {} THEN <<>>
    ELSE LET m == CHOOSE a \in S : \A b \in S \ {a} : StrLess(a, b)
         IN  <<m>> \o Sorted(S \ {m})

\* filepath.Clean of the configured root.
Clean(path) ==
    IF path = DotSlash THEN <<".">>
    ELSE IF Len(path) > 1 /\ path[Len(path)] = "/"
         THEN SubSeq(path, 1, Len(path) - 1)
         ELSE path

\* The callback: directories are skipped, a file is appended when its
\* lower-cased path ends with one of the video types.
WalkFn(list, path, isDir, videoTypes) ==
    IF isDir THEN list
    ELSE IF \E k \in 1..Len(videoTypes) : HasSuffix(ToLower(path), videoTypes[k])
         THEN Append(list, path)
         ELSE list

\* walk: the entries of a directory in lexical order, a directory's own
\* entries right after it.
RECURSIVE WalkEntries(_, _, _, _, _)
RECURSIVE WalkDir(_, _, _, _, _)
WalkEntries(list, entries, fs, ds, videoTypes) ==
    IF entries = <<>> THEN list
    ELSE LET e    == Head(entries)
             seen == WalkFn(list, e, e \in ds, videoTypes)
         IN  WalkEntries(IF e \in ds THEN WalkDir(seen, e, fs, ds, videoTypes)
                         ELSE seen,
                         Tail(entries), fs, ds, videoTypes)

WalkDir(list, dir, fs, ds, videoTypes) ==
    WalkEntries(list, Sorted({p \in fs \cup ds : Dir(p) = dir}), fs, ds,
                videoTypes)

\* The loop is entered with a file left, main returns without.
LoopOrDone(list, n) == IF n < Len(list) THEN "loop" ELSE "done"

WalkOk ==
    /\ pc = "walk"
    /\ videoFiles' = WalkDir(<<>>, Clean(config.FilePath), files, dirs,
                             config.VideoTypes)
    /\ i' = 0
    /\ pc' = LoopOrDone(videoFiles', 0)
    /\ UNCHANGED <<cfgFile, config, files, dirs, newPath, uniquePath, filename,
                   movieCode, out, prevOut, files0, run, created>>

\* An entry cannot be read: the callback returns the error, Walk stops and
\* main returns.
WalkError ==
    /\ pc = "walk"
    /\ pc' = "aborted"
    /\ UNCHANGED <<cfgFile, config, files, dirs, videoFiles, i, newPath,
                   uniquePath, filename, movieCode, out, prevOut, files0, run,
                   created>>

---------------------------------------------------------------------------
(* main's loop over videoFiles *)

Line(kind, file, to) == [kind |-> kind, file |-> file, to |-> to]

\* Variant: the file's path is compared with the bare movie code.
NeedsRenameByCode(file, code, target) == file # code

\* if file != newPath
NeedsRename(file, code, target) == file # target

\* One file up to the rename: the code is extracted and the target is built;
\* a file whose target is its own path is skipped, any other target is made
\* unique.
Process ==
    /\ pc = "loop"
    /\ LET file == videoFiles[i + 1]
       IN  /\ movieCode' = extractMovieCode(file)
           /\ newPath' = Join(Dir(file), movieCode')
           /\ IF NeedsRename(file, movieCode', newPath')
              THEN /\ uniquePath' = getUniqueFilePath(newPath', files \cup dirs)
                   /\ pc' = "rename"
                   /\ UNCHANGED <<i, out>>
              ELSE /\ out' = Append(out, Line("Skipped", file, file))
                   /\ i' = i + 1
                   /\ pc' = LoopOrDone(videoFiles, i')
                   /\ UNCHANGED uniquePath
    /\ UNCHANGED <<cfgFile, config, files, dirs, videoFiles, filename, prevOut,
                   files0, run, created>>

\* The regular files after os.Rename(file, to) succeeded.
Renamed(fs, file, to) == (fs \ {file}) \cup {to}

\* Variant: a destination found to exist at the rename is chosen anew.
RenameOkRecheck ==
    /\ pc = "rename"
    /\ uniquePath \notin dirs
    /\ IF uniquePath \in files
       THEN /\ uniquePath' = getUniqueFilePath(newPath, files \cup dirs)
            /\ UNCHANGED <<files, out, i, pc>>
       ELSE /\ files' = Renamed(files, videoFiles[i + 1], uniquePath)
            /\ out' = Append(out, Line("Renamed", videoFiles[i + 1], uniquePath))
            /\ i' = i + 1
            /\ pc' = LoopOrDone(videoFiles, i')
            /\ UNCHANGED uniquePath
    /\ UNCHANGED <<cfgFile, config, dirs, videoFiles, newPath, filename,
                   movieCode, prevOut, files0, run, created>>

\* os.Rename succeeds; it cannot when the destination is a directory.
RenameOk ==
    /\ pc = "rename"
    /\ uniquePath \notin dirs
    /\ files' = Renamed(files, videoFiles[i + 1], uniquePath)
    /\ out' = Append(out, Line("Renamed", videoFiles[i + 1], uniquePath))
    /\ i' = i + 1
    /\ pc' = LoopOrDone(videoFiles, i')
    /\ UNCHANGED <<cfgFile, config, dirs, videoFiles, newPath, uniquePath,
                   filename, movieCode, prevOut, files0, run, created>>

\* Variant: the loop stays at the file whose rename failed.
AfterErrorRetry(n) == n

\* The position after a failed rename: continue.
AfterError(n) == n + 1

\* os.Rename fails (permissions, an existing destination where the platform
\* refuses to replace it): the error is printed and the loop continues.
RenameFail ==
    /\ pc = "rename"
    /\ out' = Append(out, Line("Error", videoFiles[i + 1], uniquePath))
    /\ i' = AfterError(i)
    /\ pc' = LoopOrDone(videoFiles, i')
    /\ UNCHANGED <<cfgFile, config, files, dirs, videoFiles, newPath,
                   uniquePath, filename, movieCode, prevOut, files0, run,
                   created>>

\* The program is started again on the directory as the run before left it.
Rerun ==
    /\ pc = "done"
    /\ run < Runs
    /\ run' = run + 1
    /\ pc' = "start"
    /\ config' = NoConfig
    /\ videoFiles' = <<>>
    /\ i' = 0
    /\ newPath' = <<>>
    /\ uniquePath' = <<>>
    /\ movieCode' = <<>>
    /\ prevOut' = out
    /\ out' = <<>>
    /\ files0' = files
    /\ UNCHANGED <<cfgFile, files, dirs, filename, created>>

---------------------------------------------------------------------------
(* The scanned trees of the model *)

\* "MOVIE-CODE-XYZ-001-com-site.mkv"
NoisyXyz == <<"M","O","V","I","E","-","C","O","D","E","-","X","Y","Z","-","0","0","1","-","c","o","m","-","s","i","t","e",".","m","k","v">>

\* "XYZ-001.mkv"
Xyz == <<"X","Y","Z","-","0","0","1",".","m","k","v">>

\* "xyz-001.mkv"
LowerXyz == <<"x","y","z","-","0","0","1",".","m","k","v">>

\* "XYZ-001_1.mkv"
Xyz1 == <<"X","Y","Z","-","0","0","1","_","1",".","m","k","v">>

\* "randomfile.mp4"
RandomFile == <<"r","a","n","d","o","m","f","i","l","e",".","m","p","4">>

\* "[vendor-com]ABC-123(2020).mp4"
VendorAbc == <<"[","v","e","n","d","o","r","-","c","o","m","]","A","B","C","-","1","2","3","(","2","0","2","0",")",".","m","p","4">>

\* "abc-123-uc.MP4"
AbcUc == <<"a","b","c","-","1","2","3","-","u","c",".","M","P","4">>

\* "site-com_ABC-123.avi"
SiteComAbc == <<"s","i","t","e","-","c","o","m","_","A","B","C","-","1","2","3",".","a","v","i">>

\* "notes.txt"
Notes == <<"n","o","t","e","s",".","t","x","t">>

\* The subdirectory "d" of the root.
SubDir == <<"d">>

RootNames == {NoisyXyz, Xyz, LowerXyz, Xyz1, RandomFile, VendorAbc, AbcUc,
              SiteComAbc, Notes}

SubNames == {Xyz, LowerXyz}

\* The regular files a tree may hold, in the root and in d.
FileUniverse == RootNames \cup {Join(SubDir, n) : n \in SubNames}

\* The directories a tree may hold beside d: one named like a movie file.
DirUniverse == {Xyz}

Trees ==
    {t \in [f : SUBSET FileUniverse, d : SUBSET DirUniverse] :
         /\ Cardinality(t.f) <= MaxFiles
         /\ t.f \cap t.d = {}}

Init ==
    /\ cfgFile \in ConfigFiles
    /\ config = NoConfig
    /\ \E t \in Trees : files = t.f /\ dirs = t.d \cup {SubDir}
    /\ videoFiles = <<>>
    /\ i = 0
    /\ pc = "start"
    /\ newPath = <<>>
    /\ uniquePath = <<>>
    /\ filename = <<>>
    /\ movieCode = <<>>
    /\ out = <<>>
    /\ prevOut = <<>>
    /\ files0 = files
    /\ run = 1
    /\ created = 0

Next ==
    \/ LoadConfigCreate
    \/ LoadConfigMalformed
    \/ LoadConfigExisting
    \/ WalkOk
    \/ WalkError
    \/ Process
    \/ RenameOk
    \/ RenameFail
    \/ Rerun

\* The program alone on the tree: no other process touches it.
Spec == Init /\ [][Next]_vars

---------------------------------------------------------------------------
(* The program beside an external process *)

\* The paths the run may still rename to: the destination just chosen and
\* the targets of the files not yet processed.
RaceTargets ==
    {uniquePath} \cup
    {Join(Dir(videoFiles[k]), extractMovieCode(videoFiles[k])) :
         k \in (i + 2)..Len(videoFiles)}

\* Another process creates a regular file between getUniqueFilePath's
\* os.Stat and main's os.Rename.
ExternalCreate ==
    /\ pc = "rename"
    /\ created < MaxCreated
    /\ \E p \in RaceTargets :
           /\ p \notin files \cup dirs
           /\ files' = files \cup {p}
    /\ created' = created + 1
    /\ UNCHANGED <<cfgFile, config, dirs, videoFiles, i, pc, newPath,
                   uniquePath, filename, movieCode, out, prevOut, files0, run>>

\* One run of the program, interleaved with the external process.
NextRace ==
    \/ LoadConfigCreate
    \/ LoadConfigMalformed
    \/ LoadConfigExisting
    \/ WalkOk
    \/ WalkError
    \/ Process
    \/ RenameOk
    \/ RenameFail
    \/ ExternalCreate

SpecRace == Init /\ [][NextRace]_vars

---------------------------------------------------------------------------
(* Single calls of extractMovieCode *)

\* Noise before the code: none, a bracketed group, a parenthesized group, a
\* URL-like token.
PreNoise == {<<>>, <<"[","v","e","n","d","o","r","-","c","o","m","]">>, <<"(","2","0","2","0",")">>,
             <<"s","i","t","e","-","c","o","m","_">>}

\* Noise after the code.
PostNoise == {<<>>, <<"-","c","o","m","-","s","i","t","e">>, <<"_","o","r","g">>,
              <<"(","2","0","2","0",")">>, <<"[","1","0","8","0","p","]">>}

\* Extensions in three letter cases.
Extensions == {Mp4, <<".","M","K","V">>, <<".","A","v","i">>}

\* The sequences over S of length 1..n.
SeqsUpTo(S, n) == UNION {[1..k -> S] : k \in 1..n}

\* Movie codes XXX-123 in mixed letter case.
Codes ==
    {l \o <<"-">> \o d : l \in SeqsUpTo({"a", "Z"}, MaxLetters),
                         d \in SeqsUpTo({"0", "7"}, MaxDigits)}

\* A file name takes apart into noise, code, noise and extension.
Parts == [pre : PreNoise, code : Codes, post : PostNoise, ext : Extensions]

Compose(p) == p.pre \o p.code \o p.post \o p.ext

Filenames == {Compose(p) : p \in Parts} \cup RootNames

InitExtract ==
    /\ cfgFile = "absent"
    /\ config = NoConfig
    /\ files = {}
    /\ dirs = {}
    /\ videoFiles = <<>>
    /\ i = 0
    /\ pc = "extract"
    /\ newPath = <<>>
    /\ uniquePath = <<>>
    /\ filename \in Filenames
    /\ movieCode = <<>>
    /\ out = <<>>
    /\ prevOut = <<>>
    /\ files0 = {}
    /\ run = 1
    /\ created = 0

ExtractCall ==
    /\ pc = "extract"
    /\ movieCode' = extractMovieCode(filename)
    /\ pc' = "extracted"
    /\ UNCHANGED <<cfgFile, config, files, dirs, videoFiles, i, newPath,
                   uniquePath, filename, out, prevOut, files0, run, created>>

SpecExtract == InitExtract /\ [][ExtractCall]_vars

---------------------------------------------------------------------------
(* Single calls of getUniqueFilePath *)

\* "d/abc-1": no extension, in the subdirectory
NoExt == <<"d","/","a","b","c","-","1">>

\* The target paths: in the root, in d without extension, without a stem.
Targets == {Xyz, NoExt, Mp4}

\* Each target with its suffixed names up to _MaxProbe.
ProbeUniverse ==
    Targets \cup {Probe(t, k) : t \in Targets, k \in 1..MaxProbe}

InitResolve ==
    /\ cfgFile = "absent"
    /\ config = NoConfig
    /\ files \in SUBSET ProbeUniverse
    /\ dirs = {}
    /\ videoFiles = <<>>
    /\ i = 0
    /\ pc = "resolve"
    /\ newPath \in Targets
    /\ uniquePath = <<>>
    /\ filename = <<>>
    /\ movieCode = <<>>
    /\ out = <<>>
    /\ prevOut = <<>>
    /\ files0 = files
    /\ run = 1
    /\ created = 0

ResolveCall ==
    /\ pc = "resolve"
    /\ uniquePath' = getUniqueFilePath(newPath, files \cup dirs)
    /\ pc' = "resolved"
    /\ UNCHANGED <<cfgFile, config, files, dirs, videoFiles, i, newPath,
                   filename, movieCode, out, prevOut, files0, run, created>>

SpecResolve == InitResolve /\ [][ResolveCall]_vars

---------------------------------------------------------------------------
(* Properties *)

\* The file the loop is at.
CurrentFile == videoFiles[i + 1]

\* What os.Stat finds.
Entries == files \cup dirs

\* The Renamed lines of a run's output.
RenamedLines(o) == {k \in 1..Len(o) : o[k].kind = "Renamed"}

\* Directory, stem and extension of the three target paths, written out.
XyzStem == <<"X","Y","Z","-","0","0","1">>

AbcStem == <<"a","b","c","-","1">>

\* dir/stem_k.ext for the target p, the root's "." not written.
Suffixed(p, k) ==
    IF p = Xyz THEN XyzStem \o <<"_">> \o Itoa(k) \o Mkv
    ELSE IF p = NoExt THEN SubDir \o <<"/">> \o AbcStem \o <<"_">> \o Itoa(k)
    ELSE <<"_">> \o Itoa(k) \o Mp4

\* C1: the path getUniqueFilePath returns does not exist when it returns, and
\* differs from the target whenever the target exists.
C1_ResultDoesNotExist ==
    pc = "resolved" =>
        /\ ~Exists(uniquePath, Entries)
        /\ Exists(newPath, Entries) => uniquePath # newPath

\* C1 witness: the target and its first two suffixed names exist, the third
\* was returned.
C1_Witness ==
    /\ pc = "resolved"
    /\ newPath = Xyz
    /\ {Xyz, Suffixed(Xyz, 1), Suffixed(Xyz, 2)} \subseteq files
    /\ uniquePath = Suffixed(Xyz, 3)

\* C2: a target that does not exist is returned unchanged; for one that
\* exists the result is dir/stem_k.ext with the least k >= 1 whose name does
\* not exist: stem_1 .. stem_(k-1) all exist.
C2_FirstFreeSuffix ==
    pc = "resolved" =>
        IF ~Exists(newPath, Entries) THEN uniquePath = newPath
        ELSE \E k \in 1..(MaxProbe + 1) :
                 /\ uniquePath = Suffixed(newPath, k)
                 /\ ~Exists(Suffixed(newPath, k), Entries)
                 /\ \A j \in 1..(k - 1) : Exists(Suffixed(newPath, j), Entries)

\* C2 witness: d/abc-1 and d/abc-1_1 exist, d/abc-1_2 does not although
\* d/abc-1_3 does: d/abc-1_2 was returned.
C2_Witness ==
    /\ pc = "resolved"
    /\ newPath = NoExt
    /\ {NoExt, Suffixed(NoExt, 1), Suffixed(NoExt, 3)} \subseteq files
    /\ Suffixed(NoExt, 2) \notin files
    /\ uniquePath = <<"d","/","a","b","c","-","1","_","2">>

\* C3: a file name made of a code XXX-123 in any letter case, wrapped in
\* noise (bracketed or parenthesized groups, URL-like tokens before or after
\* the code) and an extension, is extracted to the upper-cased code followed
\* by the extension as written.
C3_AnyNoiseWrapping ==
    pc = "extracted" =>
        \A p \in Parts :
            filename = Compose(p) => movieCode = ToUpper(p.code) \o p.ext

\* A run in which every rename succeeded and none took a _k suffix.
CleanPass(o) ==
    \A k \in 1..Len(o) :
        /\ o[k].kind # "Error"
        /\ o[k].kind = "Renamed" =>
               o[k].to = Join(Dir(o[k].file), extractMovieCode(o[k].file))

\* C4: after a run whose renames all succeeded without a suffix, the next run
\* renames nothing: every file of its list is reported skipped and the files
\* are as the run before left them.
C4_SecondPassSkips ==
    (run >= 2 /\ pc = "done" /\ CleanPass(prevOut)) =>
        /\ Len(out) = Len(videoFiles)
        /\ \A k \in 1..Len(out) :
               out[k] = Line("Skipped", videoFiles[k], videoFiles[k])
        /\ files = files0

\* C4 witness: the first run renamed a file, the second run has gone through
\* its list.
C4_Witness ==
    /\ run = 2
    /\ pc = "done"
    /\ CleanPass(prevOut)
    /\ RenamedLines(prevOut) # {}
    /\ Len(out) = 2

\* The destination the claim names for target n: n when it does not exist,
\* stem_1.ext when n exists and stem_1.ext does not.
Named(n, chosen) ==
    IF ~Exists(n, Entries) THEN n
    ELSE IF ~Exists(Probe(n, 1), Entries) THEN Probe(n, 1)
    ELSE chosen

\* C5: a file whose extracted name N is not its own name goes to the rename
\* with destination N in its own directory, or stem(N)_1.ext when N exists
\* and stem(N)_1.ext does not, and a rename that succeeds moves the file
\* there; MOVIE-CODE-XYZ-001-com-site.mkv goes to XYZ-001.mkv, or to
\* XYZ-001_1.mkv when XYZ-001.mkv exists.
C5_RenamedToCode ==
    [][/\ (pc = "loop" /\ extractMovieCode(CurrentFile) # Base(CurrentFile)) =>
              /\ pc' = "rename"
              /\ uniquePath' =
                     Named(Join(Dir(CurrentFile), extractMovieCode(CurrentFile)),
                           uniquePath')
       /\ (pc = "loop" /\ CurrentFile = NoisyXyz) =>
              uniquePath' = IF Xyz \notin Entries THEN Xyz
                            ELSE IF Xyz1 \notin Entries THEN Xyz1
                            ELSE uniquePath'
       /\ (pc = "rename" /\ files' # files) =>
              /\ Dir(uniquePath) = Dir(CurrentFile)
              /\ files' = (files \ {CurrentFile}) \cup {uniquePath}
              /\ out' = Append(out, Line("Renamed", CurrentFile, uniquePath))
      ]_vars

\* C5 witness: XYZ-001.mkv existed and MOVIE-CODE-XYZ-001-com-site.mkv was
\* renamed to XYZ-001_1.mkv.
C5_Witness ==
    /\ Xyz \in files0
    /\ \E k \in 1..Len(out) : out[k] = Line("Renamed", NoisyXyz, Xyz1)
    /\ Xyz1 \in files
    /\ NoisyXyz \notin files

\* C6: for a file whose cleaned base name holds no code, the extracted name
\* is the original base name, and the step skips the file: no destination is
\* computed, no rename follows and the filesystem is as before.
C6_NoCodeSkipped ==
    [][(pc = "loop" /\ FindCode(RemoveNoise(Base(CurrentFile))) = <<>>) =>
           /\ movieCode' = Base(CurrentFile)
           /\ pc' # "rename"
           /\ uniquePath' = uniquePath
           /\ files' = files /\ dirs' = dirs
           /\ out' = Append(out, Line("Skipped", CurrentFile, CurrentFile))
           /\ i' = i + 1
      ]_vars

\* C6 witness: site-com_ABC-123.avi, whose cleaned name site.avi holds no
\* code, was skipped.
C6_Witness ==
    /\ RemoveNoise(SiteComAbc) # SiteComAbc
    /\ \E k \in 1..Len(out) : out[k] = Line("Skipped", SiteComAbc, SiteComAbc)
    /\ SiteComAbc \in files

\* C7: a rename that fails leaves every file where it is, the renames done
\* before it included, is reported, and the loop goes on with the next entry
\* of the list; a run that ends has reported every entry once, in list order.
C7_FailureNotFatal ==
    /\ [][(pc = "rename" /\ out' # out /\ out'[Len(out')].kind = "Error") =>
              /\ files' = files /\ dirs' = dirs
              /\ out' = Append(out, Line("Error", CurrentFile, uniquePath))
              /\ videoFiles' = videoFiles
              /\ i' = i + 1
              /\ pc' = IF i' < Len(videoFiles) THEN "loop" ELSE "done"
              /\ \A k \in RenamedLines(out) : out[k].to \in files'
         ]_vars
    /\ [](pc = "done" =>
              /\ Len(out) = Len(videoFiles)
              /\ \A k \in 1..Len(out) : out[k].file = videoFiles[k])

\* C7 witness: a run ended in which a rename failed, the file stayed where it
\* was and the entry after it was processed.
C7_Witness ==
    /\ pc = "done"
    /\ \E k \in 1..Len(out) :
           /\ out[k].kind = "Error"
           /\ out[k].file \in files
           /\ k < Len(out)

\* The video files of fs under the loaded config.
VideoFilesOf(fs) ==
    {p \in fs : \E k \in 1..Len(config.VideoTypes) :
                    HasSuffix(ToLower(p), config.VideoTypes[k])}

\* C8: a rename happens only in the loop, after the config was loaded and
\* the walk collected every video file; a run with a config.json that is not
\* JSON, or one that ended on a load or walk error, has renamed nothing.
C8_RenameAfterWalk ==
    /\ [][files' # files => pc = "rename"]_vars
    /\ []((pc = "rename" \/ out # <<>>) =>
              /\ config # NoConfig
              /\ config = Unmarshal(cfgFile)
              /\ Range(videoFiles) = VideoFilesOf(files0))
    /\ []((pc = "aborted" \/ cfgFile = "malformed") =>
              /\ files = files0
              /\ out = <<>>)

\* C8 witness: the walk failed with a file in the tree that a complete run
\* renames: the run ended without a rename.
C8_Witness ==
    /\ pc = "aborted"
    /\ config = DefaultConfig
    /\ NoisyXyz \in files
    /\ out = <<>>

\* C9: with no other process at work a run neither overwrites nor loses a
\* file: the destination of a rename exists neither as a file nor as a
\* directory and is no entry of the list still to come, every entry still to
\* come is where the walk found it, and the number of files stays.
C9_NoOverwrite ==
    /\ Cardinality(files) = Cardinality(files0)
    /\ pc \in {"loop", "rename"} =>
           \A k \in (i + 1)..Len(videoFiles) : videoFiles[k] \in files
    /\ pc = "rename" =>
           /\ uniquePath \notin Entries
           /\ \A k \in (i + 1)..Len(videoFiles) : videoFiles[k] # uniquePath

\* C9 witness: two files with the same code were both renamed, the later one
\* with a suffix.
C9_Witness ==
    /\ pc = "done"
    /\ Len(out) = 2
    /\ out[1].kind = "Renamed" /\ out[2].kind = "Renamed"
    /\ out[2].to = Probe(out[1].to, 1)

\* C10: the destination is not reserved: once chosen it is never checked or
\* chosen again, also when another process has created it, and the rename is
\* issued against it all the same; the loop then moves to the next entry
\* whether the rename replaced the entry or failed.
C10_NoRecheckNoRetry ==
    [][pc = "rename" =>
           /\ uniquePath' = uniquePath
           /\ (pc' # "rename" \/ i' # i) =>
                  /\ i' = i + 1
                  /\ \E kind \in {"Renamed", "Error"} :
                         out' = Append(out, Line(kind, CurrentFile, uniquePath))
                  /\ files' \in {files, (files \ {CurrentFile}) \cup {uniquePath}}
      ]_vars

\* C10 witness: the rename is about to be issued and its destination exists.
C10_Witness ==
    /\ pc = "rename"
    /\ uniquePath \in files
    /\ created = 1

===========================================================================
